---- MODULE Spec2Model ----
(***************************************************************************)
(* The two-phase playlist recommender of recommend.py: main() loads the   *)
(* input playlist, discover_playlists() counts search hits per external   *)
(* playlist, find_recommendations() fetches and scores the top playlists  *)
(* and accumulates candidate scores, main() selects the top candidates    *)
(* and creates the output playlist.                                       *)
(*                                                                         *)
(* A track is a record [id, name, artist]: artist is artists[0], the      *)
(* primary artist, and name stands for the fields that do not identify    *)
(* the track (name, uri).  An ordered dict (Counter, defaultdict) is a     *)
(* sequence of [key, val] records in insertion order.                      *)
(***************************************************************************)
EXTENDS Integers, Sequences, FiniteSets, TLC

\* ---- bounds of the model ----
MaxInput == 2          \* longest input playlist
MaxResults == 2        \* longest result list of one search
MaxPlaylistLen == 3    \* longest external playlist
MaxFetchLimit == 2     \* largest --fetch-limit
MaxCount == 2          \* largest --count

\* ---- the catalogue the runs draw from ----
None == "None"
PlaylistIds == {"p1", "p2"}
Track(i, n, a) == [id |-> i, name |-> n, artist |-> a]
\* tracks the input playlist is made of; the empty artist name is the
\* falsy value that line 137 tests for
InputTracks == {Track(1, "x", "a"), Track(2, "x", "b"), Track(2, "x", "")}
\* tracks the external playlists are made of: ids 1, 2 match the input when
\* the input holds them, id 3 never does and comes with two different records
ExternalTracks == {Track(1, "x", "a"), Track(2, "x", "b"), Track(3, "x", "c"),
                   Track(3, "y", "c")}

SeqsUpTo(S, n) == UNION {[1..m -> S] : m \in 0..n}

\* ---- ordered dicts ----
Keys(d) == {d[k].key : k \in DOMAIN d}
Has(d, key) == key \in Keys(d)
Pos(d, key) == CHOOSE k \in DOMAIN d : d[k].key = key
Get(d, key) == IF Has(d, key) THEN d[Pos(d, key)].val ELSE 0
\* d[key] += by on a Counter / defaultdict: a new key is appended
AddTo(d, key, by) ==
    IF Has(d, key)
    THEN [k \in DOMAIN d |-> IF d[k].key = key
                             THEN [key |-> key, val |-> d[k].val + by]
                             ELSE d[k]]
    ELSE Append(d, [key |-> key, val |-> by])

Min(a, b) == IF a <= b THEN a ELSE b

\* sorted(items, key=val, reverse=True): stable, equal values keep their order
InsertDesc(s, e) ==
    LET n == Cardinality({k \in DOMAIN s : s[k].val >= e.val})
    IN  SubSeq(s, 1, n) \o <<e>> \o SubSeq(s, n + 1, Len(s))

RECURSIVE sorted_desc(_)
sorted_desc(d) ==
    IF d = <<>> THEN <<>>
    ELSE InsertDesc(sorted_desc(SubSeq(d, 1, Len(d) - 1)), d[Len(d)])

\* faulty variants of most_common, which the ranking properties must reject:
\* no truncation; equal values in reverse insertion order; no sorting
RECURSIVE Reverse(_)
Reverse(s) == IF s = <<>> THEN <<>> ELSE Append(Reverse(Tail(s)), s[1])
most_common_all(d, n) == sorted_desc(d)
most_common_last_wins(d, n) ==
    IF n <= 0 THEN <<>> ELSE SubSeq(sorted_desc(Reverse(d)), 1, Min(n, Len(d)))
most_common_unsorted(d, n) ==
    IF n <= 0 THEN <<>> ELSE SubSeq(d, 1, Min(n, Len(d)))

\* Counter.most_common(n) == heapq.nlargest(n, items, key=val)
\*                        == sorted(items, key=val, reverse=True)[:n]
most_common(d, n) ==
    IF n <= 0 THEN <<>> ELSE SubSeq(sorted_desc(d), 1, Min(n, Len(d)))

\* ---- search_public_playlists ----
\* what sp.search can hand back: up to limit items, some of them None
RawResults == SeqsUpTo(PlaylistIds \cup {None}, MaxResults)

RECURSIVE DropNone(_)
DropNone(raw) ==
    IF raw = <<>> THEN <<>>
    ELSE IF raw[1] = None THEN DropNone(Tail(raw))
         ELSE <<raw[1]>> \o DropNone(Tail(raw))

\* ok = FALSE is the SpotifyException branch
search_public_playlists(ok, raw) == IF ok THEN DropNone(raw) ELSE <<>>

\* ---- discover_playlists ----
Elems(s) == {s[k] : k \in DOMAIN s}
\* faulty variant: the loop visits the result list itself, repeats included
IterationOrders_list(playlist_ids) == {playlist_ids}

\* the orders in which "for pid in set(playlist_ids)" can visit the ids:
\* a set of strings iterates in hash order, any order of the distinct ids
IterationOrders(playlist_ids) ==
    LET S == Elems(playlist_ids)
    IN  {o \in [1..Cardinality(S) -> S] : Elems(o) = S}

RECURSIVE CountHits(_, _)
CountHits(hits, order) ==
    IF order = <<>> THEN hits
    ELSE CountHits(AddTo(hits, order[1], 1), Tail(order))

\* ---- find_recommendations ----
input_track_ids(tracks) == {tracks[k].id : k \in DOMAIN tracks}

\* {t["id"]: t["artists"][0] for t in input_tracks}: the last entry wins
input_artist_by_track(tracks) ==
    [i \in input_track_ids(tracks) |->
        LET last == CHOOSE k \in DOMAIN tracks :
                        /\ tracks[k].id = i
                        /\ \A m \in DOMAIN tracks : tracks[m].id = i => m <= k
        IN  tracks[last].artist]

\* "if artist:" is false for None and for the empty string
Truthy(artist) == artist # ""

\* faulty variant: the artist count is not squared
score_playlist_linear(ids, artist_by_track, playlist_tracks) ==
    LET matching == {k \in DOMAIN playlist_tracks : playlist_tracks[k].id \in ids}
        matching_count == Cardinality(matching)
        matching_artists ==
            {a \in {artist_by_track[playlist_tracks[k].id] : k \in matching} :
                Truthy(a)}
        n == Cardinality(matching_artists)
    IN  [score |-> matching_count * n,
         matching_count |-> matching_count,
         artist_count |-> n]

score_playlist(ids, artist_by_track, playlist_tracks) ==
    LET matching == {k \in DOMAIN playlist_tracks : playlist_tracks[k].id \in ids}
        matching_count == Cardinality(matching)
        matching_artists ==
            {a \in {artist_by_track[playlist_tracks[k].id] : k \in matching} :
                Truthy(a)}
        n == Cardinality(matching_artists)
    IN  [score |-> IF matching_count = 0 THEN 0 ELSE matching_count * (n * n),
         matching_count |-> matching_count,
         artist_count |-> n]

\* faulty variant: the input tracks are not left out
IsCandidate_all(t, ids) == TRUE

\* line 207
IsCandidate(t, ids) == t.id \notin ids

\* faulty variant: a stored record is never replaced
StoreInfo_first(info, t) ==
    [i \in DOMAIN info \cup {t.id} |-> IF i \in DOMAIN info THEN info[i] ELSE t]

\* candidate_info[t["id"]] = t
StoreInfo(info, t) ==
    [i \in DOMAIN info \cup {t.id} |-> IF i = t.id THEN t ELSE info[i]]

\* the loop of lines 206-209 over the tracks of one playlist
RECURSIVE Accumulate(_, _, _, _, _)
Accumulate(scores, info, tracks, ids, score) ==
    IF tracks = <<>> THEN [scores |-> scores, info |-> info]
    ELSE IF IsCandidate(tracks[1], ids)
         THEN Accumulate(AddTo(scores, tracks[1].id, score),
                         StoreInfo(info, tracks[1]), Tail(tracks), ids, score)
         ELSE Accumulate(scores, info, Tail(tracks), ids, score)

\* faulty variant: the failed fetch is tried again
AfterFetchError_retry(idx) == idx

\* "continue" after a failed fetch: on to the next playlist
AfterFetchError(idx) == idx + 1

\* faulty variant: the empty table is not noticed
NoCandidates_never(scores) == FALSE

\* "if not candidate_scores" in main
NoCandidates(scores) == scores = <<>>

EmptyInfo == [i \in {} |-> i]

\* the value of a command-line option main has not read yet: the options are
\* inputs of the run, drawn where the code first reads them
Unread == -1

VARIABLES
    pc,                 \* where main() is
    exit_code,          \* -1 while running
    fetch_limit,        \* args.fetch_limit
    count,              \* args.count
    input_tracks,       \* main: input_tracks
    i,                  \* discover_playlists: tracks searched so far
    hit_counts,         \* discover_playlists: hit_counts
    top_playlists,      \* find_recommendations: top_playlists
    j,                  \* find_recommendations: playlists evaluated so far
    pl_tracks,          \* find_recommendations: pl_tracks of this iteration
    candidate_scores,   \* find_recommendations: candidate_scores
    candidate_info,     \* find_recommendations: candidate_info
    top_recommendations,\* main: top_recommendations
    rec_uris,           \* main: the records the output playlist is made of
    search_log,         \* history: per search, [ok, the ids in first-return order]
    fetch_log,          \* history: per fetch, [pid, ok]
    first_seen,         \* history: per candidate id, its records in the first
                        \* scored playlist that held it
    once_scores         \* history: per candidate id, the sum of the scores of the
                        \* scored playlists that contain it

vars == <<pc, exit_code, fetch_limit, count, input_tracks, i, hit_counts,
          top_playlists, j, pl_tracks, candidate_scores, candidate_info,
          top_recommendations, rec_uris, search_log, fetch_log, first_seen,
          once_scores>>

Init ==
    /\ pc = "start"
    /\ exit_code = -1
    /\ fetch_limit = Unread
    /\ count = Unread
    /\ input_tracks = <<>>
    /\ i = 0
    /\ hit_counts = <<>>
    /\ top_playlists = <<>>
    /\ j = 0
    /\ pl_tracks = <<>>
    /\ candidate_scores = <<>>
    /\ candidate_info = EmptyInfo
    /\ top_recommendations = <<>>
    /\ rec_uris = <<>>
    /\ search_log = <<>>
    /\ fetch_log = <<>>
    /\ first_seen = EmptyInfo
    /\ once_scores = [t \in {} |-> 0]

\* main, lines 270-275: fetch the input playlist, exit 1 when it is empty
LoadInput ==
    /\ pc = "start"
    /\ \E tracks \in SeqsUpTo(InputTracks, MaxInput) :
        /\ input_tracks' = tracks
        /\ IF tracks = <<>>
           THEN pc' = "Failed" /\ exit_code' = 1
           ELSE pc' = "discover" /\ exit_code' = exit_code
    /\ UNCHANGED <<fetch_limit, count, i, hit_counts, top_playlists, j, pl_tracks,
                   candidate_scores, candidate_info, top_recommendations,
                   rec_uris, search_log, fetch_log, first_seen, once_scores>>

\* the order in which the ids were first returned by one search
RECURSIVE FirstReturns(_, _)
FirstReturns(raw, seen) ==
    IF raw = <<>> THEN <<>>
    ELSE IF raw[1] = None \/ raw[1] \in seen THEN FirstReturns(Tail(raw), seen)
         ELSE <<raw[1]>> \o FirstReturns(Tail(raw), seen \cup {raw[1]})

\* discover_playlists, lines 109-115: one search for input track i + 1
DiscoverTrack ==
    /\ pc = "discover"
    /\ i < Len(input_tracks)
    /\ \E ok \in BOOLEAN, raw \in RawResults :
        /\ ok = FALSE => raw = <<>>
        /\ \E order \in IterationOrders(search_public_playlists(ok, raw)) :
              hit_counts' = CountHits(hit_counts, order)
        /\ search_log' = Append(search_log,
              [ok |-> ok, returned |-> FirstReturns(raw, {})])
    /\ i' = i + 1
    /\ UNCHANGED <<pc, exit_code, fetch_limit, count, input_tracks, top_playlists,
                   j, pl_tracks, candidate_scores, candidate_info,
                   top_recommendations, rec_uris, fetch_log, first_seen,
                   once_scores>>

\* lines 117, 169-183: the searches are done; return empty tables when
\* nothing was discovered, else keep the top fetch_limit playlists
RankPlaylists ==
    /\ pc = "discover"
    /\ i = Len(input_tracks)
    /\ IF hit_counts = <<>>
       THEN pc' = "check" /\ UNCHANGED <<top_playlists, fetch_limit>>
       ELSE \E n \in 0..MaxFetchLimit :
              /\ fetch_limit' = n
              /\ pc' = "fetch"
              /\ top_playlists' = most_common(hit_counts, n)
    /\ UNCHANGED <<exit_code, count, input_tracks, i, hit_counts, j,
                   pl_tracks, candidate_scores, candidate_info,
                   top_recommendations, rec_uris, search_log, fetch_log,
                   first_seen, once_scores>>

\* lines 185-193: fetch the track list of playlist j + 1; a SpotifyException
\* skips the playlist
FetchPlaylist ==
    /\ pc = "fetch"
    /\ j < Len(top_playlists)
    /\ \E ok \in BOOLEAN, tracks \in SeqsUpTo(ExternalTracks, MaxPlaylistLen) :
        /\ ok = FALSE => tracks = <<>>
        /\ fetch_log' = Append(fetch_log, [pid |-> top_playlists[j + 1].key, ok |-> ok])
        /\ IF ok
           THEN pc' = "score" /\ pl_tracks' = tracks /\ j' = j
           ELSE pc' = "fetch" /\ pl_tracks' = pl_tracks /\ j' = AfterFetchError(j)
    /\ UNCHANGED <<exit_code, fetch_limit, count, input_tracks, i, hit_counts,
                   top_playlists, candidate_scores, candidate_info,
                   top_recommendations, rec_uris, search_log, first_seen,
                   once_scores>>

\* lines 195-209: score the fetched playlist and add its score to its
\* candidate tracks.  pl_tracks is rebound by the next fetch before it is
\* read again, so the iteration ends with it dropped.
ScorePlaylist ==
    /\ pc = "score"
    /\ LET ids == input_track_ids(input_tracks)
           r == score_playlist(ids, input_artist_by_track(input_tracks), pl_tracks)
           acc == Accumulate(candidate_scores, candidate_info, pl_tracks, ids, r.score)
           cands == {pl_tracks[k].id : k \in DOMAIN pl_tracks} \ ids
       IN  IF r.score = 0
           THEN UNCHANGED <<candidate_scores, candidate_info, first_seen, once_scores>>
           ELSE /\ candidate_scores' = acc.scores
                /\ candidate_info' = acc.info
                /\ first_seen' =
                     [c \in DOMAIN first_seen \cup cands |->
                        IF c \in DOMAIN first_seen THEN first_seen[c]
                        ELSE {pl_tracks[k] : k \in {m \in DOMAIN pl_tracks :
                                                        pl_tracks[m].id = c}}]
                /\ once_scores' =
                     [c \in DOMAIN once_scores \cup cands |->
                        (IF c \in DOMAIN once_scores THEN once_scores[c] ELSE 0)
                        + (IF c \in cands THEN r.score ELSE 0)]
    /\ j' = j + 1
    /\ pl_tracks' = <<>>
    /\ pc' = "fetch"
    /\ UNCHANGED <<exit_code, fetch_limit, count, input_tracks, i, hit_counts,
                   top_playlists, top_recommendations, rec_uris, search_log,
                   fetch_log>>

\* lines 211-212: every top playlist was evaluated, return the tables
FinishEvaluation ==
    /\ pc = "fetch"
    /\ j = Len(top_playlists)
    /\ pc' = "check"
    /\ UNCHANGED <<exit_code, fetch_limit, count, input_tracks, i, hit_counts,
                   top_playlists, j, pl_tracks, candidate_scores, candidate_info,
                   top_recommendations, rec_uris, search_log, fetch_log,
                   first_seen, once_scores>>

\* main, lines 287-293: exit 1 without candidates, else take the top count
SelectTop ==
    /\ pc = "check"
    /\ IF NoCandidates(candidate_scores)
       THEN /\ pc' = "Failed"
            /\ exit_code' = 1
            /\ UNCHANGED <<top_recommendations, rec_uris, count>>
       ELSE \E n \in 0..MaxCount :
            /\ count' = n
            /\ pc' = "create"
            /\ exit_code' = exit_code
            /\ top_recommendations' = most_common(candidate_scores, n)
            /\ rec_uris' = [k \in DOMAIN top_recommendations' |->
                              candidate_info[top_recommendations'[k].key]]
    /\ UNCHANGED <<fetch_limit, input_tracks, i, hit_counts, top_playlists,
                   j, pl_tracks, candidate_scores, candidate_info, search_log,
                   fetch_log, first_seen, once_scores>>

\* main, lines 307-309: create_playlist with rec_uris
CreatePlaylist ==
    /\ pc = "create"
    /\ pc' = "Created"
    /\ exit_code' = 0
    /\ UNCHANGED <<fetch_limit, count, input_tracks, i, hit_counts, top_playlists,
                   j, pl_tracks, candidate_scores, candidate_info,
                   top_recommendations, rec_uris, search_log, fetch_log,
                   first_seen, once_scores>>

Next ==
    \/ LoadInput
    \/ DiscoverTrack
    \/ RankPlaylists
    \/ FetchPlaylist
    \/ ScorePlaylist
    \/ FinishEvaluation
    \/ SelectTop
    \/ CreatePlaylist

Spec == Init /\ [][Next]_vars

TypeOK ==
    /\ pc \in {"start", "discover", "fetch", "score", "check", "create",
               "Created", "Failed"}
    /\ exit_code \in {-1, 0, 1}
    /\ i \in 0..Len(input_tracks)
    /\ j \in 0..Len(top_playlists)

\* ---- what the properties below are stated with ----
Occurrences(tracks, id) == Cardinality({k \in DOMAIN tracks : tracks[k].id = id})
LastOccurrence(tracks, id) ==
    tracks[CHOOSE k \in DOMAIN tracks :
              /\ tracks[k].id = id
              /\ \A m \in DOMAIN tracks : tracks[m].id = id => m <= k]
InputIds == input_track_ids(input_tracks)
\* the ids of the fetched playlist that are not input ids
FetchedCandidates == {pl_tracks[k].id : k \in DOMAIN pl_tracks} \ InputIds
\* the positions of the fetched playlist that hold an input track
FetchedMatching == {k \in DOMAIN pl_tracks : pl_tracks[k].id \in InputIds}
\* the primary artists of the matching tracks, as primary_artist_by_id gives them
MatchingPrimaryArtists ==
    {input_artist_by_track(input_tracks)[pl_tracks[k].id] : k \in FetchedMatching}
\* this step adds add to the accumulator of every non-input track of the
\* fetched playlist, once per entry of the track list
StepAdds(add) ==
    \A c \in FetchedCandidates :
        Get(candidate_scores', c) = Get(candidate_scores, c) + Occurrences(pl_tracks, c) * add
\* find_recommendations has returned
Returned == pc \in {"check", "create", "Created"} \/ (pc = "Failed" /\ input_tracks # <<>>)
\* the searches are over
Discovered == pc \notin {"start", "discover"}
\* entry a is ranked before entry b of the ordered dict d: a higher value, or
\* the same value and an earlier place in d
Before(d, a, b) == a.val > b.val \/ (a.val = b.val /\ Pos(d, a.key) < Pos(d, b.key))
\* top is the first n entries of d in descending order of value, equal values
\* in the order of d
SelectedFrom(top, d, n) ==
    /\ Len(top) = Min(n, Len(d))
    /\ \A k \in DOMAIN top : \E m \in DOMAIN d : d[m] = top[k]
    /\ \A a, b \in DOMAIN top : a < b => Before(d, top[a], top[b])
    /\ \A m \in DOMAIN d :
          (\A k \in DOMAIN top : top[k] # d[m]) =>
              \A k \in DOMAIN top : Before(d, top[k], d[m])
\* the searches whose result list contained playlist p
SearchesReturning(p) == {k \in DOMAIN search_log : p \in Elems(search_log[k].returned)}
FirstSearch(p) == CHOOSE k \in SearchesReturning(p) : \A m \in SearchesReturning(p) : k <= m
RECURSIVE AllReturned(_)
AllReturned(log) ==
    IF log = <<>> THEN <<>> ELSE log[1].returned \o AllReturned(Tail(log))
\* the playlist ids in the order in which the searches returned them
ReturnedOrder == FirstReturns(AllReturned(search_log), {})
\* hit_counts with its entries in the order in which the searches returned them
HitsInReturnedOrder ==
    [k \in DOMAIN ReturnedOrder |->
        [key |-> ReturnedOrder[k], val |-> Get(hit_counts, ReturnedOrder[k])]]

\* C1: in every state, every key of the candidate score table is a key of the
\* candidate info table, and no key of either table is the id of an input track.
C1_TablesExcludeInput ==
    /\ Keys(candidate_scores) \subseteq DOMAIN candidate_info
    /\ \A c \in Keys(candidate_scores) \cup DOMAIN candidate_info : c \notin InputIds

\* two playlists were scored, both tables hold candidates
C1_Witness ==
    /\ j = 2
    /\ Len(fetch_log) = 2
    /\ Keys(candidate_scores) = {2, 3}
    /\ InputIds = {1}

\* C2 as claimed: scoring a fetched playlist with no input track changes
\* neither table; otherwise every non-input track of it has
\* matching_count * |primary artists of the matching tracks|^2 added, so every
\* playlist with matching_count >= 1 contributes.
C2_Original ==
    [][pc = "score" =>
        LET mc == Cardinality(FetchedMatching)
            n == Cardinality(MatchingPrimaryArtists)
        IN  IF mc = 0
            THEN UNCHANGED <<candidate_scores, candidate_info>>
            ELSE StepAdds(mc * (n * n)) /\ mc * (n * n) >= 1]_vars

\* C2 as amended: the artists counted are the non-empty primary artists of the
\* matching tracks; a playlist with no input track, or whose matching tracks
\* all have an empty primary artist, changes neither table; otherwise every
\* entry of a non-input track adds matching_count * |those artists|^2.
C2_ScoreAdded ==
    [][pc = "score" =>
        LET mc == Cardinality(FetchedMatching)
            n == Cardinality({a \in MatchingPrimaryArtists : a # ""})
        IN  IF mc = 0 \/ n = 0
            THEN UNCHANGED <<candidate_scores, candidate_info>>
            ELSE StepAdds(mc * (n * n))]_vars

\* one playlist with two matching tracks of two artists was scored: 2 * 2^2
C2_Witness ==
    /\ j = 1
    /\ pc = "fetch"
    /\ fetch_log[1].ok
    /\ Get(candidate_scores, 3) = 8

\* C3: at most fetch_limit track lists are fetched, each of a discovered
\* playlist, none twice.
C3_FetchBounded ==
    /\ fetch_limit = Unread => fetch_log = <<>>
    /\ fetch_limit # Unread => Len(fetch_log) <= fetch_limit
    /\ \A k \in DOMAIN fetch_log : Has(hit_counts, fetch_log[k].pid)
    /\ \A k, m \in DOMAIN fetch_log : fetch_log[k].pid = fetch_log[m].pid => k = m

\* two playlists were discovered, fetch_limit 1 let one be fetched
C3_Witness ==
    /\ pc = "check"
    /\ Len(hit_counts) = 2
    /\ fetch_limit = 1
    /\ Len(fetch_log) = 1

\* C4 as claimed: the evaluated playlists are the first fetch_limit in
\* descending order of hit count, equal hit counts in the order in which
\* the searches returned the ids.
C4_Original ==
    fetch_limit # Unread => SelectedFrom(top_playlists, HitsInReturnedOrder, fetch_limit)

\* C4 as amended: equal hit counts are taken in the order in which the ids
\* entered the hit-count table; that order follows the searches (an id first
\* returned by an earlier search comes first) and is not fixed among the ids
\* first returned by one search.
C4_RankedByHits ==
    /\ fetch_limit # Unread => SelectedFrom(top_playlists, hit_counts, fetch_limit)
    /\ \A a, b \in DOMAIN hit_counts :
          a < b => FirstSearch(hit_counts[a].key) <= FirstSearch(hit_counts[b].key)

\* two playlists tie, the table holds them in the reverse of the order in
\* which the search returned them, fetch_limit 1 keeps the table's first
C4_Witness ==
    /\ fetch_limit = 1
    /\ Len(hit_counts) = 2
    /\ hit_counts[1].val = hit_counts[2].val
    /\ ReturnedOrder[1] # hit_counts[1].key
    /\ top_playlists = <<hit_counts[1]>>

\* C5: one search per input track; the hit count of a playlist id is the
\* number of searches whose result list contained it, at most the number of
\* input tracks; a playlist never returned has no entry.
C5_HitCounts ==
    /\ Len(search_log) = i
    /\ Discovered => Len(search_log) = Len(input_tracks)
    /\ Len(hit_counts) = Cardinality(Keys(hit_counts))
    /\ \A p \in PlaylistIds \cup Keys(hit_counts) :
          /\ Get(hit_counts, p) = Cardinality(SearchesReturning(p))
          /\ Get(hit_counts, p) <= Len(input_tracks)
          /\ Has(hit_counts, p) <=> SearchesReturning(p) # {}

\* two searches, one playlist returned by both and one by a single search
C5_Witness ==
    /\ Discovered
    /\ Len(search_log) = 2
    /\ Get(hit_counts, "p1") = 2
    /\ Get(hit_counts, "p2") = 1

\* C6: a failed search changes no hit count and the next track is searched;
\* a failed fetch changes neither candidate table and the next playlist is
\* fetched; when find_recommendations returns, every input track was searched
\* and every top playlist was fetched exactly once.
C6_FailuresSkipped ==
    /\ [][/\ (/\ Len(search_log') = Len(search_log) + 1
              /\ ~search_log'[Len(search_log')].ok)
             => (hit_counts' = hit_counts /\ i' = i + 1 /\ pc' = "discover")
          /\ (/\ Len(fetch_log') = Len(fetch_log) + 1
              /\ ~fetch_log'[Len(fetch_log')].ok)
             => (/\ UNCHANGED <<candidate_scores, candidate_info>>
                 /\ j' = j + 1
                 /\ pc' = "fetch")]_vars
    /\ [](Returned =>
            /\ Len(search_log) = Len(input_tracks)
            /\ Len(fetch_log) = Len(top_playlists)
            /\ \A k \in DOMAIN fetch_log : fetch_log[k].pid = top_playlists[k].key)

\* a search failed, a fetch failed, and the playlist was still created
C6_Witness ==
    /\ pc = "Created"
    /\ \E k \in DOMAIN search_log : ~search_log[k].ok
    /\ \E k \in DOMAIN fetch_log : ~fetch_log[k].ok

\* C7: playlist creation is reached only with a non-empty input playlist and
\* a non-empty candidate score table; an empty input playlist ends the run
\* with exit 1 before any search or fetch; when every search returned no
\* playlist nothing is fetched, the table is empty and the run can only end
\* with exit 1.
C7_Pipeline ==
    /\ pc \in {"create", "Created"} => input_tracks # <<>> /\ candidate_scores # <<>>
    /\ exit_code = 0 <=> pc = "Created"
    /\ exit_code = 1 <=> pc = "Failed"
    /\ (pc # "start" /\ input_tracks = <<>>) =>
          pc = "Failed" /\ search_log = <<>> /\ fetch_log = <<>>
    /\ (/\ Discovered
        /\ input_tracks # <<>>
        /\ \A k \in DOMAIN search_log : search_log[k].returned = <<>>) =>
          /\ pc \in {"check", "Failed"}
          /\ candidate_scores = <<>>
          /\ fetch_log = <<>>

\* two searches succeeded with no playlist, the run failed
C7_Witness ==
    /\ pc = "Failed"
    /\ exit_code = 1
    /\ Len(search_log) = 2
    /\ \A k \in DOMAIN search_log : search_log[k].ok /\ search_log[k].returned = <<>>

\* C8 as claimed: the info table holds, for each candidate id, a record of
\* the first evaluated playlist in which the id was seen; a later playlist
\* with another record of the id does not replace it.
C8_Original == \A c \in DOMAIN candidate_info : candidate_info[c] \in first_seen[c]

\* C8 as amended: scoring a playlist with a non-zero score stores, for every
\* non-input id of the playlist, the record of the id's last entry in it,
\* replacing the record stored before; the other records stay.
C8_InfoLastSeen ==
    [][(pc = "score" /\ candidate_scores' # candidate_scores) =>
          /\ DOMAIN candidate_info' = DOMAIN candidate_info \cup FetchedCandidates
          /\ \A c \in DOMAIN candidate_info' :
                candidate_info'[c] = IF c \in FetchedCandidates
                                     THEN LastOccurrence(pl_tracks, c)
                                     ELSE candidate_info[c]]_vars

\* the record of id 3 was replaced by the different record of a later playlist
C8_Witness ==
    /\ j = 2
    /\ 3 \in DOMAIN candidate_info
    /\ candidate_info[3] \notin first_seen[3]

\* C9: the selection is the first min(count, number of candidates) entries
\* of the score table in descending order of score, equal scores in the
\* table's insertion order, the ids distinct, each resolved in the info table.
C9_Selection ==
    pc \in {"create", "Created"} =>
        /\ SelectedFrom(top_recommendations, candidate_scores, count)
        /\ \A a, b \in DOMAIN top_recommendations :
              top_recommendations[a].key = top_recommendations[b].key => a = b
        /\ \A k \in DOMAIN top_recommendations :
              top_recommendations[k].key \in DOMAIN candidate_info
        /\ rec_uris = [k \in DOMAIN top_recommendations |->
                          candidate_info[top_recommendations[k].key]]

\* two candidates, the one inserted second has the higher score and is the
\* only one selected
C9_Witness ==
    /\ pc = "create"
    /\ count = 1
    /\ Len(candidate_scores) = 2
    /\ candidate_scores[1].val < candidate_scores[2].val
    /\ top_recommendations = <<candidate_scores[2]>>

\* C10: when find_recommendations returns, the score of a candidate is the
\* sum of the scores of the fetched, non-zero-scored playlists that contain
\* it, each counted once however often the track occurs in the playlist.
C10_ScoreOncePerPlaylist ==
    Returned => \A c \in Keys(candidate_scores) : Get(candidate_scores, c) = once_scores[c]
====
